---- MODULE Spec2Model ----
(***************************************************************************)
(* Model of the constraint parser/exporter of urdf_parser:                 *)
(*   parseConstraint, parseLoopConstraint (two variants),                  *)
(*   parseCouplingConstraint and exportConstraint.                         *)
(*                                                                         *)
(* An XML element is a record with one field per attribute / child tag the *)
(* code looks up.  An optional attribute or child is a sequence of length  *)
(* 0 (absent, the NULL pointer of tinyxml2) or 1 (present).  Attribute     *)
(* values that hold numbers are sequences of whitespace-separated tokens.  *)
(***************************************************************************)
EXTENDS Integers, Sequences, FiniteSets, TLC

VARIABLES constraint, config, result, xml, copy

vars == <<constraint, config, result, xml, copy>>

(* ---------------------------------------------------------------------- *)
(* Bounds                                                                  *)
(* ---------------------------------------------------------------------- *)
\* number of children the parent node handed to exportConstraint may collect
MaxChildren == 2
\* largest coordinate / ratio value of the caller-built records
MaxValue == 1

(* ---------------------------------------------------------------------- *)
(* Strings and numbers                                                     *)
(* ---------------------------------------------------------------------- *)
None == <<>>
Some(v) == <<v>>

\* numeric literals the scalar parser accepts, with their value
NumberTokens == {"0", "1", "2", "1.0", "2.0"}

TokenValue(tok) ==
  CASE tok = "0" -> 0
    [] tok = "1" -> 1
    [] tok = "1.0" -> 1
    [] tok = "2" -> 2
    [] tok = "2.0" -> 2

\* the text the stream formatter prints for a value
NumberText(d) ==
  CASE d = 0 -> "0"
    [] d = 1 -> "1"
    [] d = 2 -> "2"

\* strToDouble: one numeric token, anything else throws
strToDouble(str) ==
  IF Len(str) = 1 /\ str[1] \in NumberTokens
    THEN [ok |-> TRUE, value |-> TokenValue(str[1])]
    ELSE [ok |-> FALSE, value |-> 0]

Vector3(x, y, z) == [x |-> x, y |-> y, z |-> z]

\* Vector3::clear()
Vector3Clear == Vector3(0, 0, 0)

\* Vector3::init(str): exactly three numeric tokens, otherwise ParseError
Vector3Init(str) ==
  IF Len(str) = 3 /\ \A i \in 1..3 : str[i] \in NumberTokens
    THEN [ok |-> TRUE,
          value |-> Vector3(TokenValue(str[1]), TokenValue(str[2]), TokenValue(str[3]))]
    ELSE [ok |-> FALSE, value |-> Vector3Clear]

\* urdf_export_helpers::values2str for a vector and for a scalar
values2strVec(vec) == <<NumberText(vec.x), NumberText(vec.y), NumberText(vec.z)>>
values2str(d) == <<NumberText(d)>>

(* ---------------------------------------------------------------------- *)
(* Poses                                                                   *)
(* ---------------------------------------------------------------------- *)
\* a Pose is a position and a rotation; the rotation is kept as the
\* roll-pitch-yaw triple the XML carries
Pose(p, r) == [position |-> p, rotation |-> r]

\* Pose::clear(): the identity transform
PoseClear == Pose(Vector3Clear, Vector3Clear)

\* parsePoseInternal(pose, xml): clears the pose, then reads xyz, then rpy
parsePoseInternal(pose, origin_xml) ==
  LET xyz == IF origin_xml.xyz = None
               THEN [ok |-> TRUE, value |-> PoseClear.position]
               ELSE Vector3Init(origin_xml.xyz[1])
      rpy == IF origin_xml.rpy = None
               THEN [ok |-> TRUE, value |-> PoseClear.rotation]
               ELSE Vector3Init(origin_xml.rpy[1])
  IN  IF ~xyz.ok THEN [ok |-> FALSE, pose |-> PoseClear]
      ELSE IF ~rpy.ok THEN [ok |-> FALSE, pose |-> Pose(xyz.value, PoseClear.rotation)]
      ELSE [ok |-> TRUE, pose |-> Pose(xyz.value, rpy.value)]

\* exportPose(pose, xml): the origin element added under xml
exportPose(pose) ==
  [xyz |-> Some(values2strVec(pose.position)),
   rpy |-> Some(values2strVec(pose.rotation))]

(* ---------------------------------------------------------------------- *)
(* Records                                                                 *)
(* ---------------------------------------------------------------------- *)
ClassTypes == {"UNKNOWN", "LOOP", "COUPLING"}
MappedTypes == {"PLANAR", "REVOLUTE", "CONTINUOUS", "PRISMATIC", "FIXED"}
LoopTypes == MappedTypes \cup {"UNKNOWN"}

\* the value clear() leaves in ratio
RatioClear == 0

\* a constructed (empty) record of a class
Construct(class_type) ==
  [class_type |-> class_type,
   name |-> "",
   predecessor_link_name |-> "",
   successor_link_name |-> "",
   type |-> "UNKNOWN",
   predecessor_to_constraint_origin_transform |-> PoseClear,
   successor_to_constraint_origin_transform |-> PoseClear,
   axis |-> Vector3Clear,
   ratio |-> RatioClear]

\* constraint.clear(): every field back to its constructed value
clear(c) == Construct(c.class_type)

(* ---------------------------------------------------------------------- *)
(* XML elements                                                            *)
(* ---------------------------------------------------------------------- *)
\* <origin xyz=".." rpy=".."/>
Origin(xyz, rpy) == [xyz |-> xyz, rpy |-> rpy]

\* <predecessor link=".."> or <successor link="..">, with its origin child
Endpoint(link, origin) == [link |-> link, origin |-> origin]

\* the constraint element: attributes name and type, and the first child of
\* each tag the parsers look up
Element(name, type, predecessor, successor, axis, ratio, predecessor_origin, successor_origin) ==
  [name |-> name, type |-> type,
   predecessor |-> predecessor, successor |-> successor,
   axis |-> axis, ratio |-> ratio,
   predecessor_origin |-> predecessor_origin,
   successor_origin |-> successor_origin]

(* ---------------------------------------------------------------------- *)
(* parseConstraint: the header stage shared by both parsers                *)
(* ---------------------------------------------------------------------- *)
\* link name of one endpoint child: written only when the child exists and
\* carries a link attribute
EndpointLinkName(old, endpoint_xml) ==
  IF endpoint_xml # None /\ endpoint_xml[1].link # None
    THEN endpoint_xml[1].link[1]
    ELSE old

\* mutant: the successor name is read from the predecessor element
parseConstraint_crossed(c, cfg) ==
  IF cfg.name = None
    THEN [ok |-> FALSE, err |-> "MissingName", constraint |-> c]
    ELSE [ok |-> TRUE, err |-> "",
          constraint |->
            [c EXCEPT !.name = cfg.name[1],
                      !.predecessor_link_name = EndpointLinkName(@, cfg.predecessor),
                      !.successor_link_name = EndpointLinkName(@, cfg.predecessor)]]

\* mutant: the header also insists on a predecessor element
parseConstraint_strict(c, cfg) ==
  IF cfg.name = None \/ cfg.predecessor = None
    THEN [ok |-> FALSE, err |-> "MissingName", constraint |-> c]
    ELSE [ok |-> TRUE, err |-> "",
          constraint |->
            [c EXCEPT !.name = cfg.name[1],
                      !.predecessor_link_name = EndpointLinkName(@, cfg.predecessor),
                      !.successor_link_name = EndpointLinkName(@, cfg.successor)]]

parseConstraint(c, cfg) ==
  IF cfg.name = None
    THEN [ok |-> FALSE, err |-> "MissingName", constraint |-> c]
    ELSE [ok |-> TRUE, err |-> "",
          constraint |->
            [c EXCEPT !.name = cfg.name[1],
                      !.predecessor_link_name = EndpointLinkName(@, cfg.predecessor),
                      !.successor_link_name = EndpointLinkName(@, cfg.successor)]]

(* ---------------------------------------------------------------------- *)
(* parseLoopConstraint: the steps of the body                              *)
(* ---------------------------------------------------------------------- *)
Failed(err, c) == [ok |-> FALSE, err |-> err, constraint |-> c]
Succeeded(c) == [ok |-> TRUE, err |-> "", constraint |-> c]

\* one endpoint's transform, nested variant: <predecessor><origin/></predecessor>
\* returns the new transform, or a failure with the transform cleared
parseEndpointOrigin(endpoint_xml) ==
  IF endpoint_xml = None
    THEN [ok |-> FALSE, err |-> "MissingEndpointElement", written |-> FALSE, pose |-> PoseClear]
  ELSE IF endpoint_xml[1].origin = None
    THEN [ok |-> TRUE, err |-> "", written |-> TRUE, pose |-> PoseClear]
  ELSE LET p == parsePoseInternal(PoseClear, endpoint_xml[1].origin[1])
       IN  IF p.ok
             THEN [ok |-> TRUE, err |-> "", written |-> TRUE, pose |-> p.pose]
             ELSE [ok |-> FALSE, err |-> "MalformedOrigin", written |-> TRUE, pose |-> PoseClear]

\* one endpoint's transform, flat variant: <predecessor_origin/> under the
\* constraint element; an absent element is the identity, not a failure
parseFlatOrigin(origin_xml) ==
  IF origin_xml = None
    THEN [ok |-> TRUE, err |-> "", written |-> TRUE, pose |-> PoseClear]
  ELSE LET p == parsePoseInternal(PoseClear, origin_xml[1])
       IN  IF p.ok
             THEN [ok |-> TRUE, err |-> "", written |-> TRUE, pose |-> p.pose]
             ELSE [ok |-> FALSE, err |-> "MalformedOrigin", written |-> TRUE, pose |-> PoseClear]

\* the enum value of a type literal (case-sensitive), UNKNOWN when unmapped
TypeFromString(type_str) ==
  CASE type_str = "planar" -> "PLANAR"
    [] type_str = "revolute" -> "REVOLUTE"
    [] type_str = "continuous" -> "CONTINUOUS"
    [] type_str = "prismatic" -> "PRISMATIC"
    [] type_str = "fixed" -> "FIXED"
    [] OTHER -> "UNKNOWN"

\* the type attribute: absent and unknown literals fail and leave type alone
parseType(c, cfg) ==
  IF cfg.type = None THEN Failed("MissingType", c)
  ELSE IF TypeFromString(cfg.type[1]) = "UNKNOWN" THEN Failed("UnknownType", c)
  ELSE Succeeded([c EXCEPT !.type = TypeFromString(cfg.type[1])])

\* mutant: the absent-axis default is the z axis
parseAxis_defaultZ(c, cfg) ==
  IF c.type = "FIXED" THEN Succeeded(c)
  ELSE IF cfg.axis = None THEN Succeeded([c EXCEPT !.axis = Vector3(0, 0, 1)])
  ELSE IF cfg.axis[1].xyz = None THEN Succeeded(c)
  ELSE LET v == Vector3Init(cfg.axis[1].xyz[1])
       IN  IF v.ok THEN Succeeded([c EXCEPT !.axis = v.value])
                   ELSE Failed("MalformedAxis", [c EXCEPT !.axis = Vector3Clear])

\* mutant: the axis is parsed whatever the type
parseAxis_always(c, cfg) ==
  IF cfg.axis = None THEN Succeeded([c EXCEPT !.axis = Vector3(1, 0, 0)])
  ELSE IF cfg.axis[1].xyz = None THEN Succeeded(c)
  ELSE LET v == Vector3Init(cfg.axis[1].xyz[1])
       IN  IF v.ok THEN Succeeded([c EXCEPT !.axis = v.value])
                   ELSE Failed("MalformedAxis", [c EXCEPT !.axis = Vector3Clear])

\* the axis step: skipped for FIXED; (1,0,0) without an axis element; left
\* alone when the element has no xyz; cleared and failed on a malformed xyz
parseAxis(c, cfg) ==
  IF c.type = "FIXED" THEN Succeeded(c)
  ELSE IF cfg.axis = None THEN Succeeded([c EXCEPT !.axis = Vector3(1, 0, 0)])
  ELSE IF cfg.axis[1].xyz = None THEN Succeeded(c)
  ELSE LET v == Vector3Init(cfg.axis[1].xyz[1])
       IN  IF v.ok THEN Succeeded([c EXCEPT !.axis = v.value])
                   ELSE Failed("MalformedAxis", [c EXCEPT !.axis = Vector3Clear])

\* type and axis, the tail both variants share
parseTypeAndAxis(c, cfg) ==
  LET t == parseType(c, cfg)
  IN  IF ~t.ok THEN t ELSE parseAxis(t.constraint, cfg)

\* the body after clear(): header, predecessor transform, successor
\* transform, type, axis; the two origins are found by Pred and Succ
LoopBody(c, cfg, pred, succ) ==
  LET h == parseConstraint(c, cfg)
  IN  IF ~h.ok THEN h
      ELSE LET c1 == IF pred.written
                       THEN [h.constraint EXCEPT
                               !.predecessor_to_constraint_origin_transform = pred.pose]
                       ELSE h.constraint
           IN  IF ~pred.ok THEN Failed(pred.err, c1)
               ELSE LET c2 == IF succ.written
                                THEN [c1 EXCEPT
                                        !.successor_to_constraint_origin_transform = succ.pose]
                                ELSE c1
                    IN  IF ~succ.ok THEN Failed(succ.err, c2)
                        ELSE parseTypeAndAxis(c2, cfg)

\* mutant: the record is not cleared on entry
parseLoopConstraint_noclear(c, cfg) ==
  LoopBody(c, cfg, parseEndpointOrigin(cfg.predecessor), parseEndpointOrigin(cfg.successor))

\* parseLoopConstraint, nested variant
parseLoopConstraint(c, cfg) ==
  LoopBody(clear(c), cfg,
           parseEndpointOrigin(cfg.predecessor), parseEndpointOrigin(cfg.successor))

\* parseLoopConstraint, flat variant (constraint.cpp)
parseLoopConstraintFlat(c, cfg) ==
  LoopBody(clear(c), cfg,
           parseFlatOrigin(cfg.predecessor_origin), parseFlatOrigin(cfg.successor_origin))

(* ---------------------------------------------------------------------- *)
(* parseCouplingConstraint                                                 *)
(* ---------------------------------------------------------------------- *)
\* mutant: a ratio element without a value attribute is tolerated
parseRatio_lenient(c, cfg) ==
  IF cfg.ratio = None THEN Succeeded(c)
  ELSE IF cfg.ratio[1].value = None THEN Succeeded(c)
  ELSE LET d == strToDouble(cfg.ratio[1].value[1])
       IN  IF d.ok THEN Succeeded([c EXCEPT !.ratio = d.value])
                   ELSE Failed("InvalidRatioValue", c)

\* the ratio step
parseRatio(c, cfg) ==
  IF cfg.ratio = None THEN Succeeded(c)
  ELSE IF cfg.ratio[1].value = None THEN Failed("MissingRatioValue", c)
  ELSE LET d == strToDouble(cfg.ratio[1].value[1])
       IN  IF d.ok THEN Succeeded([c EXCEPT !.ratio = d.value])
                   ELSE Failed("InvalidRatioValue", c)

parseCouplingConstraint(c, cfg) ==
  LET h == parseConstraint(clear(c), cfg)
  IN  IF ~h.ok THEN h ELSE parseRatio(h.constraint, cfg)

(* ---------------------------------------------------------------------- *)
(* exportConstraint                                                        *)
(* ---------------------------------------------------------------------- *)
\* the type literal of a mapped enum value
TypeToString(type) ==
  CASE type = "REVOLUTE" -> "revolute"
    [] type = "CONTINUOUS" -> "continuous"
    [] type = "PRISMATIC" -> "prismatic"
    [] type = "FIXED" -> "fixed"
    [] type = "PLANAR" -> "planar"

\* the constraint element built for a record
ExportedElement(c) ==
  IF c.class_type = "LOOP"
    THEN Element(Some(c.name), Some(TypeToString(c.type)),
           Some(Endpoint(Some(c.predecessor_link_name),
                         Some(exportPose(c.predecessor_to_constraint_origin_transform)))),
           Some(Endpoint(Some(c.successor_link_name),
                         Some(exportPose(c.successor_to_constraint_origin_transform)))),
           Some([xyz |-> Some(values2strVec(c.axis))]),
           None, None, None)
    ELSE Element(Some(c.name), None,
           Some(Endpoint(Some(c.predecessor_link_name), None)),
           Some(Endpoint(Some(c.successor_link_name), None)),
           None,
           Some([value |-> Some(values2str(c.ratio))]),
           None, None)

\* mutant: the element is linked to the parent before the class dispatch
exportConstraint_early(c, parent) ==
  IF c.class_type = "LOOP" /\ c.type \notin MappedTypes
    THEN [ok |-> FALSE, err |-> "UnknownType",
          xml |-> Append(parent, Element(Some(c.name), None, None, None, None, None, None, None))]
  ELSE IF c.class_type \notin {"LOOP", "COUPLING"}
    THEN [ok |-> FALSE, err |-> "UnknownClassType",
          xml |-> Append(parent, Element(Some(c.name), None, None, None, None, None, None, None))]
  ELSE [ok |-> TRUE, err |-> "", xml |-> Append(parent, ExportedElement(c))]

\* mutant: the transforms are not exported
exportConstraint_noorigin(c, parent) ==
  IF c.class_type = "LOOP" /\ c.type \notin MappedTypes
    THEN [ok |-> FALSE, err |-> "UnknownType", xml |-> parent]
  ELSE IF c.class_type \notin {"LOOP", "COUPLING"}
    THEN [ok |-> FALSE, err |-> "UnknownClassType", xml |-> parent]
  ELSE [ok |-> TRUE, err |-> "",
        xml |-> Append(parent,
                  [ExportedElement(c) EXCEPT !.predecessor[1].origin = None,
                                             !.successor[1].origin = None])]

\* exportConstraint(constraint, xml): the children of the parent afterwards
exportConstraint(c, parent) ==
  IF c.class_type = "LOOP" /\ c.type \notin MappedTypes
    THEN [ok |-> FALSE, err |-> "UnknownType", xml |-> parent]
  ELSE IF c.class_type \notin {"LOOP", "COUPLING"}
    THEN [ok |-> FALSE, err |-> "UnknownClassType", xml |-> parent]
  ELSE [ok |-> TRUE, err |-> "", xml |-> Append(parent, ExportedElement(c))]

(* ---------------------------------------------------------------------- *)
(* Inputs                                                                  *)
(* ---------------------------------------------------------------------- *)
GoodOrigin == Origin(Some(<<"1", "0", "0">>), Some(<<"0", "0", "1.0">>))
\* the position parses, the rotation does not
BadOrigin == Origin(Some(<<"1", "0", "0">>), Some(<<"abc">>))
Origins == {None, Some(GoodOrigin), Some(BadOrigin)}

NameAttrs == {None, Some("c1")}
TypeAttrs == {None, Some("revolute"), Some("fixed"), Some("orbital")}

AxisAbsent == None
AxisNoXyz == Some([xyz |-> None])
AxisGood == Some([xyz |-> Some(<<"0", "1.0", "0">>)])
AxisBad == Some([xyz |-> Some(<<"0", "abc", "0">>)])
Axes == {AxisAbsent, AxisNoXyz, AxisGood, AxisBad}

Ratios == {None,
           Some([value |-> None]),
           Some([value |-> Some(<<"2.0">>)]),
           Some([value |-> Some(<<"abc">>)]),
           Some([value |-> Some(<<"1", "2">>)])}

\* endpoint children of the nested schema
NestedEndpoints(link) ==
  {None,
   Some(Endpoint(None, None)),
   Some(Endpoint(Some(link), None)),
   Some(Endpoint(Some(link), Some(GoodOrigin))),
   Some(Endpoint(Some(link), Some(BadOrigin)))}

\* endpoint children of the flat schema and of coupling constraints
PlainEndpoints(link) ==
  {None, Some(Endpoint(None, None)), Some(Endpoint(Some(link), None))}

NestedElements ==
  {Element(n, t, p, s, a, None, None, None) :
     n \in NameAttrs, t \in TypeAttrs,
     p \in NestedEndpoints("a"), s \in NestedEndpoints("b"), a \in Axes}

FlatElements ==
  {Element(n, t, p, s, a, None, po, so) :
     n \in NameAttrs, t \in TypeAttrs,
     p \in {None, Some(Endpoint(Some("a"), None))},
     s \in {None, Some(Endpoint(Some("b"), None))},
     a \in Axes, po \in Origins, so \in Origins}

CouplingElements ==
  {Element(n, t, p, s, None, r, None, None) :
     n \in NameAttrs, t \in {None, Some("orbital")},
     p \in PlainEndpoints("a"), s \in PlainEndpoints("b"), r \in Ratios}

\* a record an earlier use left populated
DirtyLoop ==
  [Construct("LOOP") EXCEPT
     !.name = "old", !.predecessor_link_name = "x", !.successor_link_name = "y",
     !.type = "REVOLUTE",
     !.predecessor_to_constraint_origin_transform =
        Pose(Vector3(0, MaxValue, 0), Vector3(MaxValue, 0, 0)),
     !.successor_to_constraint_origin_transform =
        Pose(Vector3(0, 0, MaxValue), Vector3(0, MaxValue, 0)),
     !.axis = Vector3(0, 0, MaxValue)]

DirtyCoupling ==
  [Construct("COUPLING") EXCEPT
     !.name = "old", !.predecessor_link_name = "x", !.successor_link_name = "y",
     !.ratio = MaxValue]

\* records a caller may hand to exportConstraint
Values == 0..MaxValue

ExportLoopRecords ==
  {[Construct("LOOP") EXCEPT
      !.name = n, !.predecessor_link_name = p, !.successor_link_name = s,
      !.type = t,
      !.predecessor_to_constraint_origin_transform = Pose(Vector3(v, 0, 0), Vector3(0, 0, w)),
      !.successor_to_constraint_origin_transform = Pose(Vector3(0, u, 0), Vector3Clear),
      !.axis = Vector3(0, y, z)] :
     n \in {"", "c1"}, p \in {"", "a"}, s \in {"", "b"}, t \in LoopTypes,
     v \in Values, w \in Values, u \in {0, MaxValue}, y \in Values, z \in Values}

ExportCouplingRecords ==
  {[Construct("COUPLING") EXCEPT
      !.name = n, !.predecessor_link_name = p, !.successor_link_name = s, !.ratio = r] :
     n \in {"", "c1"}, p \in {"", "a"}, s \in {"", "b"}, r \in Values}

ExportRecords ==
  ExportLoopRecords \cup ExportCouplingRecords \cup {Construct("UNKNOWN")}

(* ---------------------------------------------------------------------- *)
(* Actions                                                                 *)
(* ---------------------------------------------------------------------- *)
Outcome(op, r) == [op |-> op, ok |-> r.ok, err |-> r.err]

NoCall == [op |-> "none", ok |-> TRUE, err |-> ""]

ParseLoop ==
  \E e \in NestedElements :
    /\ constraint.class_type = "LOOP"
    /\ LET r == parseLoopConstraint(constraint, e)
       IN  /\ constraint' = r.constraint
           /\ result' = Outcome("parseLoopConstraint", r)
    /\ config' = Some(e)
    /\ UNCHANGED <<xml, copy>>

ParseLoopFlat ==
  \E e \in FlatElements :
    /\ constraint.class_type = "LOOP"
    /\ LET r == parseLoopConstraintFlat(constraint, e)
       IN  /\ constraint' = r.constraint
           /\ result' = Outcome("parseLoopConstraintFlat", r)
    /\ config' = Some(e)
    /\ UNCHANGED <<xml, copy>>

ParseCoupling ==
  \E e \in CouplingElements :
    /\ constraint.class_type = "COUPLING"
    /\ LET r == parseCouplingConstraint(constraint, e)
       IN  /\ constraint' = r.constraint
           /\ result' = Outcome("parseCouplingConstraint", r)
    /\ config' = Some(e)
    /\ UNCHANGED <<xml, copy>>

\* exportConstraint(constraint, xml) on a parent that still takes children
Export ==
  /\ Len(xml) < MaxChildren
  /\ LET r == exportConstraint(constraint, xml)
     IN  /\ xml' = r.xml
         /\ result' = Outcome("exportConstraint", r)
  /\ UNCHANGED <<constraint, config, copy>>

\* the element exported last, parsed into a second record of the same class
ReparseLoop ==
  /\ Len(xml) > 0
  /\ copy.class_type = "LOOP"
  /\ LET r == parseLoopConstraint(copy, xml[Len(xml)])
     IN  /\ copy' = r.constraint
         /\ result' = Outcome("parseLoopConstraint", r)
  /\ config' = Some(xml[Len(xml)])
  /\ UNCHANGED <<constraint, xml>>

ReparseCoupling ==
  /\ Len(xml) > 0
  /\ copy.class_type = "COUPLING"
  /\ LET r == parseCouplingConstraint(copy, xml[Len(xml)])
     IN  /\ copy' = r.constraint
         /\ result' = Outcome("parseCouplingConstraint", r)
  /\ config' = Some(xml[Len(xml)])
  /\ UNCHANGED <<constraint, xml>>

(* ---------------------------------------------------------------------- *)
(* Specifications                                                          *)
(* ---------------------------------------------------------------------- *)
\* parsing: one record object, parsed into again and again
Init ==
  /\ constraint \in {Construct("LOOP"), DirtyLoop, Construct("COUPLING"), DirtyCoupling}
  /\ config = None
  /\ result = NoCall
  /\ xml = <<>>
  /\ copy = Construct(constraint.class_type)

Next == ParseLoop \/ ParseLoopFlat \/ ParseCoupling

Spec == Init /\ [][Next]_vars

\* exporting a caller-built record and parsing the exported element back
InitExport ==
  /\ constraint \in ExportRecords
  /\ config = None
  /\ result = NoCall
  /\ xml = <<>>
  /\ copy = Construct(constraint.class_type)

NextExport == Export \/ ReparseLoop \/ ReparseCoupling

SpecExport == InitExport /\ [][NextExport]_vars

(* ---------------------------------------------------------------------- *)
(* Properties                                                              *)
(* ---------------------------------------------------------------------- *)
Parsed == config # None
element == config[1]
LoopOps == {"parseLoopConstraint", "parseLoopConstraintFlat"}
ParseOps == LoopOps \cup {"parseCouplingConstraint"}

\* what the call just made returns on a freshly constructed record
FreshOutcome ==
  CASE result.op = "parseLoopConstraint" ->
         parseLoopConstraint(Construct("LOOP"), element)
    [] result.op = "parseLoopConstraintFlat" ->
         parseLoopConstraintFlat(Construct("LOOP"), element)
    [] result.op = "parseCouplingConstraint" ->
         parseCouplingConstraint(Construct("COUPLING"), element)

WellFormedOrigin(origin_xml) ==
  origin_xml = None \/ parsePoseInternal(PoseClear, origin_xml[1]).ok

\* the element passes the header and both transform steps of the call made
OriginsWellFormed ==
  /\ element.name # None
  /\ result.op = "parseLoopConstraint" =>
       /\ element.predecessor # None /\ WellFormedOrigin(element.predecessor[1].origin)
       /\ element.successor # None /\ WellFormedOrigin(element.successor[1].origin)
  /\ result.op = "parseLoopConstraintFlat" =>
       /\ WellFormedOrigin(element.predecessor_origin)
       /\ WellFormedOrigin(element.successor_origin)

\* C1: whenever parseLoopConstraint fails, both transforms and the axis of
\* the record are in their cleared state.
C1_FailedLoopParseIsCleared ==
  (result.op \in LoopOps /\ ~result.ok) =>
     /\ constraint.predecessor_to_constraint_origin_transform = PoseClear
     /\ constraint.successor_to_constraint_origin_transform = PoseClear
     /\ constraint.axis = Vector3Clear

RoundTripDone ==
  result.op = "parseLoopConstraint" /\ constraint.type \in MappedTypes

HeaderAndTransformsEqual ==
  /\ copy.name = constraint.name
  /\ copy.predecessor_link_name = constraint.predecessor_link_name
  /\ copy.successor_link_name = constraint.successor_link_name
  /\ copy.type = constraint.type
  /\ copy.predecessor_to_constraint_origin_transform =
       constraint.predecessor_to_constraint_origin_transform
  /\ copy.successor_to_constraint_origin_transform =
       constraint.successor_to_constraint_origin_transform

\* C2 as stated: exporting a LOOP record of a mapped type and parsing the
\* exported element succeeds and gives back name, both link names, type,
\* both transforms and the axis, FIXED records with a set axis included.
C2_RoundTripEqual ==
  RoundTripDone =>
     result.ok /\ HeaderAndTransformsEqual /\ copy.axis = constraint.axis

\* C2 amended: the round trip succeeds and gives back name, both link names,
\* type and both transforms; the axis comes back when the type is not FIXED,
\* and is the cleared axis when the type is FIXED.
C2_RoundTripAmended ==
  RoundTripDone =>
     /\ result.ok
     /\ HeaderAndTransformsEqual
     /\ copy.axis = IF constraint.type = "FIXED" THEN Vector3Clear ELSE constraint.axis

C2_Witness ==
  /\ RoundTripDone
  /\ result.ok
  /\ constraint.type = "FIXED"
  /\ constraint.axis # Vector3Clear
  /\ constraint.predecessor_to_constraint_origin_transform # PoseClear
  /\ copy.predecessor_to_constraint_origin_transform =
       constraint.predecessor_to_constraint_origin_transform
  /\ copy.axis = Vector3Clear

\* C3: an element without a name attribute makes both parsers fail at the
\* header with nothing written after the clear, and the header fails for no
\* other reason.
C3_MissingNameFailsHeader ==
  (Parsed /\ result.op \in ParseOps) =>
     /\ element.name = None =>
          /\ ~result.ok
          /\ result.err = "MissingName"
          /\ constraint = Construct(constraint.class_type)
     /\ result.err = "MissingName" => element.name = None
     /\ parseConstraint(Construct(constraint.class_type), element).ok = (element.name # None)

C3_Witness ==
  /\ Parsed
  /\ result.op = "parseCouplingConstraint"
  /\ element.name = None
  /\ element.ratio # None
  /\ element.predecessor # None
  /\ ~result.ok
  /\ constraint = Construct("COUPLING")

\* the link name the header leaves for one endpoint child
ExpectedLinkName(endpoint_xml) ==
  IF endpoint_xml = None THEN ""
  ELSE IF endpoint_xml[1].link = None THEN ""
  ELSE endpoint_xml[1].link[1]

\* C4: with a name attribute the header succeeds for every combination of
\* endpoint children, and each link name is set exactly when its own child
\* exists and carries a link attribute, whatever the other child is.
C4_EndpointsIndependent ==
  (Parsed /\ result.op \in ParseOps /\ element.name # None) =>
     /\ result.err # "MissingName"
     /\ parseConstraint(Construct(constraint.class_type), element).ok
     /\ constraint.name = element.name[1]
     /\ constraint.predecessor_link_name = ExpectedLinkName(element.predecessor)
     /\ constraint.successor_link_name = ExpectedLinkName(element.successor)

C4_Witness ==
  /\ Parsed
  /\ result.op \in ParseOps
  /\ element.name # None
  /\ element.predecessor # None /\ element.predecessor[1].link = None
  /\ element.successor # None /\ element.successor[1].link # None
  /\ constraint.predecessor_link_name = ""
  /\ constraint.successor_link_name = "b"

\* C5: parseLoopConstraint fails whenever the predecessor or the successor
\* child element is absent, and gets past that step when both exist even
\* without link attributes.
C5_MissingEndpointFails ==
  (Parsed /\ result.op \in LoopOps /\ element.name # None) =>
     /\ (element.predecessor = None \/ element.successor = None) => ~result.ok
     /\ (element.predecessor # None /\ element.successor # None) =>
          result.err # "MissingEndpointElement"

\* C6: a loop element of type "fixed" with a well formed header and origins
\* parses successfully to the same record whatever its axis child is, and
\* the axis stays cleared.
C6_FixedSkipsAxis ==
  (Parsed /\ result.op \in LoopOps /\ OriginsWellFormed /\ element.type = Some("fixed")) =>
     /\ result.ok
     /\ constraint.type = "FIXED"
     /\ constraint.axis = Vector3Clear
     /\ \A a \in Axes :
          LET other == [element EXCEPT !.axis = a]
              r == IF result.op = "parseLoopConstraint"
                     THEN parseLoopConstraint(Construct("LOOP"), other)
                     ELSE parseLoopConstraintFlat(Construct("LOOP"), other)
          IN  r.ok /\ r.constraint = constraint

C6_Witness ==
  /\ Parsed
  /\ result.op \in LoopOps
  /\ OriginsWellFormed
  /\ element.type = Some("fixed")
  /\ element.axis = AxisBad
  /\ result.ok
  /\ constraint.axis = Vector3Clear

\* C7: a loop element that parses successfully with a type other than FIXED
\* and has no axis child leaves the axis at exactly (1, 0, 0).
C7_AbsentAxisDefault ==
  (Parsed /\ result.op \in LoopOps /\ result.ok
     /\ constraint.type # "FIXED" /\ element.axis = None) =>
     constraint.axis = Vector3(1, 0, 0)

C7_Witness ==
  /\ Parsed
  /\ result.op \in LoopOps
  /\ result.ok
  /\ constraint.type = "REVOLUTE"
  /\ element.axis = None
  /\ constraint.axis = Vector3(1, 0, 0)

RatioValueBad ==
  /\ element.ratio # None
  /\ \/ element.ratio[1].value = None
     \/ ~strToDouble(element.ratio[1].value[1]).ok

\* C8: parseCouplingConstraint on a named element fails exactly when a ratio
\* child is present with a missing or unparseable value; the ratio holds the
\* parsed value exactly after a success with a ratio child, and is unset
\* after every failure and after a success without a ratio child.
C8_RatioSetIffParsed ==
  (Parsed /\ result.op = "parseCouplingConstraint") =>
     /\ element.name # None => (~result.ok <=> RatioValueBad)
     /\ constraint.ratio =
          IF result.ok /\ element.ratio # None
            THEN strToDouble(element.ratio[1].value[1]).value
            ELSE RatioClear
     /\ (result.ok /\ element.ratio # None) => constraint.ratio # RatioClear

C8_Witness ==
  /\ Parsed
  /\ result.op = "parseCouplingConstraint"
  /\ element.name # None
  /\ element.ratio = Some([value |-> Some(<<"abc">>)])
  /\ ~result.ok
  /\ result.err = "InvalidRatioValue"
  /\ constraint.ratio = RatioClear

ExportSucceeds(c) ==
  \/ c.class_type = "COUPLING"
  \/ c.class_type = "LOOP" /\ c.type \in MappedTypes

\* C9: exportConstraint fails exactly for a class other than LOOP and
\* COUPLING and for a LOOP record of an unmapped type; a failed export adds
\* no child to the parent, a successful one adds exactly one element with
\* the name and both endpoint elements with their link attributes; the
\* record is never changed.
C9_ExportAllOrNothing ==
  [][result'.op = "exportConstraint" =>
       /\ result'.ok = ExportSucceeds(constraint)
       /\ constraint' = constraint
       /\ IF result'.ok
            THEN /\ Len(xml') = Len(xml) + 1
                 /\ SubSeq(xml', 1, Len(xml)) = xml
                 /\ LET el == xml'[Len(xml')]
                    IN  /\ el.name = Some(constraint.name)
                        /\ el.predecessor # None
                        /\ el.predecessor[1].link = Some(constraint.predecessor_link_name)
                        /\ el.successor # None
                        /\ el.successor[1].link = Some(constraint.successor_link_name)
            ELSE xml' = xml]_vars

C9_Witness ==
  /\ result.op = "exportConstraint"
  /\ ~result.ok
  /\ constraint.class_type = "LOOP"
  /\ constraint.type = "UNKNOWN"
  /\ constraint.name = "c1"
  /\ xml = <<>>

\* C10: after any sequence of parse calls on one record the record and the
\* outcome are those the last element gives on a fresh record; a non-fixed
\* loop element whose axis child has no xyz leaves the cleared axis, and a
\* coupling element without a ratio child leaves the ratio unset.
C10_LastElementDecides ==
  (Parsed /\ result.op \in ParseOps) =>
     /\ constraint = FreshOutcome.constraint
     /\ result.ok = FreshOutcome.ok
     /\ result.err = FreshOutcome.err
     /\ (result.op \in LoopOps /\ result.ok /\ constraint.type # "FIXED"
           /\ element.axis = AxisNoXyz) => constraint.axis = Vector3Clear
     /\ (result.op = "parseCouplingConstraint" /\ element.ratio = None) =>
          constraint.ratio = RatioClear

C10_Witness ==
  /\ Parsed
  /\ result.op = "parseLoopConstraint"
  /\ result.ok
  /\ constraint.type = "REVOLUTE"
  /\ element.axis = AxisNoXyz
  /\ constraint.axis = Vector3Clear

====
